---- MODULE Spec2Model ----
(***************************************************************************)
(* Weather agent of MyLCAgent: the two programs main.py and                *)
(* versions/stream.py.  Both build an agent with create_agent, give it the *)
(* tools get_user_location and get_weather_for_location, run one turn and  *)
(* print what the agent reports.                                           *)
(*                                                                         *)
(* Text is a sequence of tokens; the token " " is whitespace, every other  *)
(* token is a run of non-whitespace characters.  The Chinese literals of   *)
(* the source are written as English tokens.                               *)
(***************************************************************************)
EXTENDS Integers, Sequences, FiniteSets, TLC

\* ------------------------------------------------------------------ bounds
\* blocks the model may emit in one turn, over all its messages
MaxBlocks == 3
\* inference rounds in one turn
MaxCycles == 3

\* ------------------------------------------------------------------ text
SP == " "

Min(S) == CHOOSE x \in S : \A y \in S : x <= y
Max(S) == CHOOSE x \in S : \A y \in S : x >= y

\* str.strip(): drop leading and trailing whitespace
Strip(s) ==
    LET keep == {i \in 1..Len(s) : s[i] # SP}
    IN  IF keep = {} THEN <<>> ELSE SubSeq(s, Min(keep), Max(keep))

\* str.startswith
StartsWith(s, p) == Len(s) >= Len(p) /\ SubSeq(s, 1, Len(p)) = p

\* p occurs in s
Mentions(s, p) == \E i \in 1..Len(s) : i + Len(p) - 1 <= Len(s) /\ SubSeq(s, i, i + Len(p) - 1) = p

Florida      == <<"Florida">>
SanFrancisco == <<"SanFrancisco">>
ReturningSR  == <<"Returning", SP, "structured", SP, "response">>

\* ------------------------------------------------------------------ dicts
\* a dict is a set of <<key, value>> pairs with distinct keys
NoArgs == {}
Has(d, k) == \E p \in d : p[1] = k
Get(d, k) == IF Has(d, k) THEN (CHOOSE p \in d : p[1] = k)[2] ELSE <<>>

\* ------------------------------------------------------------------ context
UserIds == {<<"1">>, <<"2">>}

\* Context(user_id)
Context(uid) == [user_id |-> uid]

\* ------------------------------------------------------------------ tools
\* WeatherQuery.city_must_not_be_empty: the validated value, or a failure
\* naming the field
city_must_not_be_empty(v) ==
    IF v = <<>> \/ Strip(v) = <<>>
    THEN [ok |-> FALSE, field |-> "city", value |-> <<>>]
    ELSE [ok |-> TRUE, field |-> "city", value |-> Strip(v)]

\* main.py get_weather_for_location(query): what it writes, what it returns
get_weather_for_location_main(query) ==
    LET city == Strip(query.city)
    IN  [writes |-> << <<"querying:", SP>> \o city >>,
         result |-> city \o <<"always-sunny-pun">>,
         arg    |-> query.city]

\* versions/stream.py get_weather_for_location(city)
get_weather_for_location_stream(city) ==
    [writes |-> << <<"querying-city:", SP>> \o city, <<"got-city-data:", SP>> \o city >>,
     result |-> city \o <<"always-sunny">>,
     arg    |-> city]

\* get_user_location with the branches of the user test exchanged
get_user_location_main_swapped(ctx) ==
    LET location == IF ctx.user_id = <<"1">> THEN SanFrancisco ELSE Florida
    IN  [writes |-> << <<"found-location:", SP>> \o location >>,
         result |-> location,
         arg    |-> <<>>]

\* main.py get_user_location(runtime)
get_user_location_main(ctx) ==
    LET location == IF ctx.user_id = <<"1">> THEN Florida ELSE SanFrancisco
    IN  [writes |-> << <<"found-location:", SP>> \o location >>,
         result |-> location,
         arg    |-> <<>>]

\* versions/stream.py get_user_location(runtime)
get_user_location_stream(ctx) ==
    LET user_id  == ctx.user_id
        location == IF user_id = <<"1">> THEN Florida ELSE SanFrancisco
    IN  [writes |-> << <<"looking-up-user:", SP>> \o user_id,
                       <<"found-user-location:", SP>> \o location >>,
         result |-> location,
         arg    |-> <<>>]

\* ------------------------------------------------------------------ messages

\* content blocks of an ai message
ReasoningBlock(summary) == [type |-> "reasoning", name |-> "", args |-> NoArgs, text |-> summary, id |-> 0]
TextBlock(text)         == [type |-> "text", name |-> "", args |-> NoArgs, text |-> text, id |-> 0]
ToolCallBlock(name, args) == [type |-> "tool_call", name |-> name, args |-> args, text |-> <<>>, id |-> 0]
\* a block of a kind neither program knows
OtherBlock              == [type |-> "image", name |-> "", args |-> NoArgs, text |-> <<>>, id |-> 0]

IsToolCall(b)     == b.type = "tool_call"
IsResponseCall(b) == IsToolCall(b) /\ b.name = "ResponseFormat"
IsExternalCall(b) == IsToolCall(b) /\ b.name # "ResponseFormat"

\* HumanMessage(content, name)
HumanMessage(content, name) ==
    [role |-> "human", content |-> content, name |-> name, content_blocks |-> <<>>, tool_call_id |-> 0]

\* AIMessage carrying content blocks
AIMessage(blocks) ==
    [role |-> "ai", content |-> <<>>, name |-> <<>>, content_blocks |-> blocks, tool_call_id |-> 0]

\* ToolMessage of the tool name answering the call tool_call_id
ToolMessage(content, tool_call_id, name) ==
    [role |-> "tool", content |-> content, name |-> <<name>>,
     content_blocks |-> IF content = <<>> THEN <<>> ELSE <<TextBlock(content)>>,
     tool_call_id |-> tool_call_id]

\* the human message run_agent builds (main.py) and the literal user message
\* of versions/stream.py
user_msg(version, user_input, context) ==
    IF version = "main"
    THEN HumanMessage(user_input, <<"user_">> \o context.user_id)
    ELSE HumanMessage(user_input, <<>>)

\* ------------------------------------------------------------------ printing
\* one printed line; src is the tool call the line stems from (0: none)
Line(label, content, args, src) == [label |-> label, content |-> content, args |-> args, src |-> src]

\* styles.get(step_type.lower(), (.., step_type.title()))
StyleLabel(step_type) ==
    CASE step_type = "question"     -> "Question"
      [] step_type = "thought"      -> "Thought"
      [] step_type = "action"       -> "Action"
      [] step_type = "observation"  -> "Observation"
      [] step_type = "final_answer" -> "Final Answer"
      [] step_type = "info"         -> "Info"
      [] OTHER                      -> step_type

\* print_react_step(step_type, content, tool_args); no text of the model holds
\* an escape sequence, so the unicode_escape branch is never taken
print_react_step(step_type, content, tool_args, src) ==
    IF step_type = "action" /\ tool_args # NoArgs
    THEN Line(StyleLabel(step_type), content, tool_args, src)
    ELSE Line(StyleLabel(step_type), content, NoArgs, src)

LiftedFields == <<"question", "thought", "final_answer">>

\* dispatch_react_elements without the ResponseFormat case: every tool_call
\* block is printed as an action
DispatchBlock_no_special_case(block) ==
    IF block.type = "reasoning"
    THEN <<print_react_step("thought", block.text, NoArgs, 0)>>
    ELSE IF block.type = "tool_call"
    THEN <<print_react_step("action", <<block.name>>, block.args, block.id)>>
    ELSE IF block.type = "text" /\ block.text # <<>>
    THEN <<print_react_step("info", block.text, NoArgs, 0)>>
    ELSE <<>>

\* the lines of one content block in dispatch_react_elements
DispatchBlock(block) ==
    IF block.type = "reasoning"
    THEN <<print_react_step("thought", block.text, NoArgs, 0)>>
    ELSE IF block.type = "tool_call"
    THEN IF block.name = "ResponseFormat"
         THEN LET field(i) == LiftedFields[i]
                  on == {i \in 1..Len(LiftedFields) : Get(block.args, field(i)) # <<>>}
                  F[i \in 0..Len(LiftedFields)] ==
                      IF i = 0 THEN <<>>
                      ELSE IF i \in on
                           THEN Append(F[i-1], print_react_step(field(i), Get(block.args, field(i)), NoArgs, 0))
                           ELSE F[i-1]
              IN  F[Len(LiftedFields)]
         ELSE <<print_react_step("action", <<block.name>>, block.args, block.id)>>
    ELSE IF block.type = "text" /\ block.text # <<>>
    THEN <<print_react_step("info", block.text, NoArgs, 0)>>
    ELSE <<>>

\* dispatch_react_elements(message)
dispatch_react_elements(message) ==
    IF message.role = "tool"
    THEN IF ~StartsWith(message.content, ReturningSR)
         THEN <<print_react_step("observation", message.content, NoArgs, message.tool_call_id)>>
         ELSE <<>>
    ELSE IF message.role # "ai"
    THEN <<>>
    ELSE LET bs == message.content_blocks
             F[i \in 0..Len(bs)] == IF i = 0 THEN <<>> ELSE F[i-1] \o DispatchBlock(bs[i])
         IN  F[Len(bs)]

\* dispatch_react_elements over a list of messages, in order
DispatchAll(msgs) ==
    LET F[i \in 0..Len(msgs)] == IF i = 0 THEN <<>> ELSE F[i-1] \o dispatch_react_elements(msgs[i])
    IN  F[Len(msgs)]

\* the lines versions/stream.py prints for one content block
StreamBlock(block, src) ==
    IF block.type = "tool_call"
    THEN <<Line("call-tool", <<block.name>>, NoArgs, block.id), Line("args", <<>>, block.args, block.id)>>
    ELSE IF block.type = "text"
    THEN <<Line("content", block.text, NoArgs, src)>>
    ELSE <<>>

\* versions/stream.py: the lines for the messages of one step (the last only)
StreamStepLines(msgs) ==
    IF msgs = <<>> THEN <<>>
    ELSE LET last_message == msgs[Len(msgs)]
             bs == last_message.content_blocks
             F[i \in 0..Len(bs)] ==
                 IF i = 0 THEN <<>> ELSE F[i-1] \o StreamBlock(bs[i], last_message.tool_call_id)
         IN  IF bs # <<>> THEN F[Len(bs)]
             ELSE <<Line("message-content", last_message.content, NoArgs, last_message.tool_call_id)>>

\* ------------------------------------------------------------------ tool invocation
\* the outcome of one tool call: validation of the arguments the handler
\* declares, then the handler
invoke(version, call, ctx) ==
    LET run(h) == [ran |-> TRUE, error |-> FALSE, field |-> "", writes |-> h.writes,
                   content |-> h.result, arg |-> h.arg]
    IN  IF call.name = "get_user_location"
        THEN IF version = "main" THEN run(get_user_location_main(ctx))
                                 ELSE run(get_user_location_stream(ctx))
        ELSE IF version = "main"
             THEN LET v == city_must_not_be_empty(Get(call.args, "city"))
                  IN  IF v.ok
                      THEN run(get_weather_for_location_main([city |-> v.value]))
                      ELSE [ran |-> FALSE, error |-> TRUE, field |-> v.field, writes |-> <<>>,
                            content |-> <<"validation-error:", SP, v.field>>, arg |-> <<>>]
             ELSE run(get_weather_for_location_stream(Get(call.args, "city")))

\* ------------------------------------------------------------------ events
\* the (stream_mode, chunk) pairs agent.stream yields
CustomEvent(chunk, src) ==
    [mode |-> "custom", chunk |-> chunk, src |-> src, node |-> "", messages |-> <<>>,
     has_sr |-> FALSE, sr |-> NoArgs]
UpdateEvent(node, msgs, has_sr, sr) ==
    [mode |-> "updates", chunk |-> <<>>, src |-> 0, node |-> node, messages |-> msgs,
     has_sr |-> has_sr, sr |-> sr]

\* the writes of one handler as custom events, in the order written
CustomEvents(writes, src) == [i \in 1..Len(writes) |-> CustomEvent(writes[i], src)]

\* body of the loop over agent.stream in run_agent (main.py)
MainLines(e) ==
    IF e.mode = "custom"
    THEN <<Line("custom", e.chunk, NoArgs, e.src)>>
    ELSE IF e.has_sr
    THEN [i \in 1..Len(LiftedFields) |->
             print_react_step(LiftedFields[i], Get(e.sr, LiftedFields[i]), NoArgs, 0)]
    ELSE DispatchAll(e.messages)

\* body of the loop over agent.stream in main (versions/stream.py)
StreamLines(e) ==
    <<Line("mode", <<e.mode>>, NoArgs, 0)>> \o
    (IF e.mode = "custom"
     THEN <<Line("custom", e.chunk, NoArgs, e.src)>>
     ELSE <<Line("step", <<e.node>>, NoArgs, 0)>> \o StreamStepLines(e.messages))

\* a consumer that keeps its output newest first
Printed_newest_first(version, before, e) ==
    (IF version = "main" THEN MainLines(e) ELSE StreamLines(e)) \o before

\* what the consumer prints for one event, appended to what it printed before
Printed(version, before, e) ==
    before \o (IF version = "main" THEN MainLines(e) ELSE StreamLines(e))

\* ------------------------------------------------------------------ state
VARIABLES
    version,        \* "main": main.py, "stream": versions/stream.py
    mode,           \* --output-mode: "invoke" or "stream"
    context,        \* the Context handed to the agent
    pc,             \* "idle", "model", "tools", "final", "done"
    messages,       \* the messages of the thread
    pending,        \* tool calls of the last ai message not yet run
    stream,         \* events yielded by agent.stream and not yet consumed
    out,            \* the lines printed so far
    dispatched,     \* the handler runs so far: name, call id, argument, result
    structured,     \* the structured response of the turn (NoArgs: none yet)
    cycles,         \* inference rounds of the turn so far
    used            \* blocks the model emitted in the turn so far

vars == <<version, mode, context, pc, messages, pending, stream, out, dispatched,
          structured, cycles, used>>

WeatherQuestion == <<"what's", SP, "the", SP, "weather">>
UserInputs == {WeatherQuestion, <<"hello">>}

\* ------------------------------------------------------------------ the model's output
\* the location the thread last reported, or a city the model names itself
KnownCity(msgs) ==
    LET locs == {i \in 1..Len(msgs) : msgs[i].role = "tool" /\ msgs[i].name = <<"get_user_location">>}
    IN  IF locs = {} THEN <<"Paris">> ELSE msgs[Max(locs)].content

Cities(msgs) == {<<>>, <<SP>>, KnownCity(msgs), <<SP>> \o KnownCity(msgs) \o <<SP>>}

\* the ResponseFormat record of each program as tool call arguments
ResponseArgs(ver) ==
    IF ver = "main"
    THEN { {<<"question", <<"q">>>>, <<"thought", <<"t">>>>, <<"action", <<"a">>>>,
            <<"observation", <<"o">>>>, <<"final_answer", <<"f">>>>},
           {<<"question", <<"q">>>>, <<"thought", <<>>>>, <<"action", <<>>>>,
            <<"observation", <<>>>>, <<"final_answer", <<"f">>>>} }
    ELSE { {<<"punny_response", <<"p">>>>, <<"weather_conditions", <<"w">>>>} }

\* the content blocks the model may emit; the arguments of a weather call are
\* written flat, {city}, for both programs (main.py nests them under query)
Shapes(ver, msgs) ==
    {ReasoningBlock(<<"thinking">>), TextBlock(<<"text">>), TextBlock(<<>>), OtherBlock,
     ToolCallBlock("get_user_location", NoArgs)}
    \cup {ToolCallBlock("get_weather_for_location", {<<"city", c>>}) : c \in Cities(msgs)}
    \cup {ToolCallBlock("ResponseFormat", a) : a \in ResponseArgs(ver)}

\* an ai message either calls tools or gives the structured response
CallsTools(bs) ==
    /\ \E i \in 1..Len(bs) : IsExternalCall(bs[i])
    /\ \A i \in 1..Len(bs) : ~IsResponseCall(bs[i])
Responds(bs) ==
    /\ \A i \in 1..Len(bs) : ~IsExternalCall(bs[i])
    /\ Cardinality({i \in 1..Len(bs) : IsResponseCall(bs[i])}) = 1

\* the blocks numbered from the blocks emitted before
Stamp(bs, from) == [i \in 1..Len(bs) |-> [bs[i] EXCEPT !.id = from + i]]

\* the tool calls of an ai message, in the order issued
ExternalCalls(bs) ==
    LET F[i \in 0..Len(bs)] ==
            IF i = 0 THEN <<>>
            ELSE IF IsExternalCall(bs[i]) THEN Append(F[i-1], bs[i]) ELSE F[i-1]
    IN  F[Len(bs)]

ResponseCall(bs) == bs[CHOOSE i \in 1..Len(bs) : IsResponseCall(bs[i])]

\* ------------------------------------------------------------------ actions
Init ==
    /\ version \in {"main", "stream"}
    /\ mode \in {"invoke", "stream"}
    /\ version = "stream" => mode = "stream"
    /\ context \in {Context(u) : u \in UserIds}
    /\ pc = "idle"
    /\ messages = <<>>
    /\ pending = <<>>
    /\ stream = <<>>
    /\ out = <<>>
    /\ dispatched = <<>>
    /\ structured = NoArgs
    /\ cycles = 0
    /\ used = 0

\* run_agent / main of stream.py: the user's message enters the agent
RunAgent ==
    /\ pc = "idle"
    /\ \E user_input \in UserInputs :
          messages' = Append(messages, user_msg(version, user_input, context))
    /\ pc' = "model"
    /\ UNCHANGED <<version, mode, context, pending, stream, out, dispatched,
                   structured, cycles, used>>

\* the events a step yields: none unless the run is streamed
Yield(events) == IF mode = "stream" THEN stream \o events ELSE stream

\* an inference round whose ai message calls tools
ModelCallsTools ==
    /\ pc = "model" /\ stream = <<>>
    /\ cycles + 1 < MaxCycles
    /\ \E n \in 1..(MaxBlocks - used - 1) :
       \E raw \in [1..n -> Shapes(version, messages)] :
          /\ CallsTools(raw)
          /\ LET bs == Stamp(raw, used)
                 ai == AIMessage(bs)
             IN  /\ messages' = Append(messages, ai)
                 /\ pending' = ExternalCalls(bs)
                 /\ stream' = Yield(<<UpdateEvent("model", <<ai>>, FALSE, NoArgs)>>)
                 /\ used' = used + n
    /\ cycles' = cycles + 1
    /\ pc' = "tools"
    /\ UNCHANGED <<version, mode, context, out, dispatched, structured>>

\* an inference round whose ai message is the structured response; the agent
\* may answer the ResponseFormat call with a tool message of its own
ModelResponds ==
    /\ pc = "model" /\ stream = <<>>
    /\ \E n \in 1..(MaxBlocks - used) :
       \E raw \in [1..n -> Shapes(version, messages)] :
       \E ack \in BOOLEAN :
          /\ Responds(raw)
          /\ LET bs  == Stamp(raw, used)
                 ai  == AIMessage(bs)
                 rc  == ResponseCall(bs)
                 new == IF ack THEN <<ai, ToolMessage(ReturningSR, rc.id, "ResponseFormat")>>
                               ELSE <<ai>>
             IN  /\ messages' = messages \o new
                 /\ structured' = rc.args
                 /\ stream' = Yield(<<UpdateEvent("model", new, TRUE, rc.args)>>)
                 /\ used' = used + n
    /\ cycles' = cycles + 1
    /\ pc' = "final"
    /\ UNCHANGED <<version, mode, context, pending, out, dispatched>>

\* the next pending tool call runs; its result joins the thread
ToolsNode ==
    /\ pc = "tools" /\ stream = <<>>
    /\ pending # <<>>
    /\ LET call == Head(pending)
           r    == invoke(version, call, context)
           msg  == ToolMessage(r.content, call.id, call.name)
       IN  /\ messages' = Append(messages, msg)
           /\ stream' = Yield(CustomEvents(r.writes, call.id)
                              \o <<UpdateEvent("tools", <<msg>>, FALSE, NoArgs)>>)
           /\ dispatched' = IF r.ran
                            THEN Append(dispatched, [name |-> call.name, id |-> call.id,
                                                     arg |-> r.arg, result |-> r.content])
                            ELSE dispatched
    /\ pending' = Tail(pending)
    /\ pc' = IF Tail(pending) = <<>> THEN "model" ELSE "tools"
    /\ UNCHANGED <<version, mode, context, out, structured, cycles, used>>

\* one pass of the loop over agent.stream
Consume ==
    /\ stream # <<>>
    /\ out' = Printed(version, out, Head(stream))
    /\ stream' = Tail(stream)
    /\ UNCHANGED <<version, mode, context, pc, messages, pending, dispatched,
                   structured, cycles, used>>

\* the run returns; agent.invoke hands back the thread's messages
Finish ==
    /\ pc = "final" /\ stream = <<>>
    /\ out' = IF mode = "invoke" THEN out \o DispatchAll(messages) ELSE out
    /\ pc' = "done"
    /\ UNCHANGED <<version, mode, context, messages, pending, stream, dispatched,
                   structured, cycles, used>>

Next == RunAgent \/ ModelCallsTools \/ ModelResponds \/ ToolsNode \/ Consume \/ Finish

Spec == Init /\ [][Next]_vars

\* ------------------------------------------------------------------ helpers of the properties
Range(f) == {f[i] : i \in DOMAIN f}

AIMessages(msgs) == SelectSeq(msgs, LAMBDA m : m.role = "ai")

\* every content block of every ai message of the thread
ThreadBlocks == UNION {Range(m.content_blocks) : m \in Range(AIMessages(messages))}

\* the external tool calls of the thread, in the order issued
ThreadCalls ==
    LET ais == AIMessages(messages)
        F[i \in 0..Len(ais)] == IF i = 0 THEN <<>> ELSE F[i-1] \o ExternalCalls(ais[i].content_blocks)
    IN  F[Len(ais)]

\* the tool message answering call id, if any
Answers(id) == {m \in Range(messages) : m.role = "tool" /\ m.tool_call_id = id}

IsCustomLine(l) == l.label = "custom"
IsResultLine(l) == l.src # 0 /\ l.label \in {"Observation", "content", "message-content"}
IsActionLine(l) == l.label \in {"Action", "call-tool"}

\* ------------------------------------------------------------------ C2
\* C2: in a streamed run every custom event a tool handler wrote reaches the
\* consumer before the step event that reports that tool call's result: no
\* custom line of a call is printed after the call's result line, and none is
\* still waiting in the stream once the result line is printed.
C2_CustomBeforeStep ==
    /\ \A i, j \in DOMAIN out :
          (IsCustomLine(out[i]) /\ IsResultLine(out[j]) /\ out[i].src = out[j].src) => i < j
    /\ \A k \in DOMAIN stream : \A j \in DOMAIN out :
          ~(stream[k].mode = "custom" /\ IsResultLine(out[j]) /\ stream[k].src = out[j].src)

\* a handler's custom line and the result line of the same call were both printed
C2_Witness ==
    \E i, j \in DOMAIN out :
        IsCustomLine(out[i]) /\ IsResultLine(out[j]) /\ out[i].src = out[j].src

\* ------------------------------------------------------------------ C5
\* C5: no attribute of the Context appears in a message of the thread: once the
\* turn is done, neither the name nor the content of any message mentions
\* context.user_id.
C5_ContextNotInThread ==
    pc = "done" =>
        \A i \in DOMAIN messages :
            /\ ~Mentions(messages[i].name, context.user_id)
            /\ ~Mentions(messages[i].content, context.user_id)

\* ------------------------------------------------------------------ C7
IsBlankCityCall(b) ==
    IsToolCall(b) /\ b.name = "get_weather_for_location" /\ Strip(Get(b.args, "city")) = <<>>

\* C7: a get_weather_for_location call whose city is empty or whitespace-only
\* never runs the handler; its answer is a validation failure naming city, and
\* the turn goes on to another inference round.
C7_BlankCityRejected ==
    \A b \in ThreadBlocks :
        IsBlankCityCall(b) =>
            /\ \A k \in DOMAIN dispatched : dispatched[k].id # b.id
            /\ \A m \in Answers(b.id) : m.content = <<"validation-error:", SP, "city">>
            /\ (pc = "done" => Answers(b.id) # {})

\* ------------------------------------------------------------------ C9
LocationOf(ctx) == IF ctx.user_id = <<"1">> THEN Florida ELSE SanFrancisco

\* the turn of the scenario: asked for the weather, the model first calls
\* get_user_location, then get_weather_for_location with the location the
\* thread reported, then answers
Scenario ==
    LET ais == AIMessages(messages)
        c1  == ExternalCalls(ais[1].content_blocks)
        c2  == ExternalCalls(ais[2].content_blocks)
    IN  /\ pc \in {"final", "done"}
        /\ messages[1].content = WeatherQuestion
        /\ Len(ais) = 3
        /\ Len(c1) = 1 /\ c1[1].name = "get_user_location"
        /\ Len(c2) = 1 /\ c2[1].name = "get_weather_for_location"
        /\ \E m \in Answers(c1[1].id) : Get(c2[1].args, "city") = m.content

\* C9: in the scenario exactly two handlers run before the final answer,
\* get_user_location first and get_weather_for_location second; the location
\* is Florida for user_id "1" and San Francisco for any other, and the weather
\* handler receives exactly the location returned.  Every run of
\* get_user_location returns the location of the context's user.
C9_LocationThenCondition ==
    /\ \A k \in DOMAIN dispatched :
          dispatched[k].name = "get_user_location" => dispatched[k].result = LocationOf(context)
    /\ Scenario =>
          /\ Len(dispatched) = 2
          /\ dispatched[1].name = "get_user_location"
          /\ dispatched[1].result = LocationOf(context)
          /\ dispatched[2].name = "get_weather_for_location"
          /\ dispatched[2].arg = dispatched[1].result

\* the scenario ran to its end for a user other than "1"
C9_Witness ==
    Scenario /\ pc = "done" /\ context.user_id # <<"1">> /\ Len(dispatched) = 2

\* ------------------------------------------------------------------ C10
\* the tool calls the printed lines report, in the order printed
ReportedCalls ==
    LET acts == SelectSeq(out, IsActionLine)
    IN  [i \in 1..Len(acts) |-> <<acts[i].content, acts[i].src>>]

IssuedCalls == [i \in 1..Len(ThreadCalls) |-> << <<ThreadCalls[i].name>>, ThreadCalls[i].id >>]

\* every external call is reported once, in the order issued, and with its
\* arguments when it has any
ExternalReported ==
    /\ ReportedCalls = IssuedCalls
    /\ \A b \in ThreadBlocks : IsExternalCall(b) =>
          \E l \in Range(out) : l.src = b.id /\ l.label \in {"Action", "args"} /\ l.args = b.args

\* no printed line reports ResponseFormat as a tool invocation
ResponseNotReported ==
    \A l \in Range(out) : IsActionLine(l) => l.content # <<"ResponseFormat">>

\* the fields of the program's ResponseFormat that are shown to the user
ShownFields(ver) == IF ver = "main" THEN Range(LiftedFields) ELSE {"punny_response", "weather_conditions"}

\* the non-empty fields of every ResponseFormat call are printed as fields
ResponseLifted ==
    \A b \in ThreadBlocks : IsResponseCall(b) =>
        \A f \in ShownFields(version) : Get(b.args, f) # <<>> =>
            \E l \in Range(out) : l.label = StyleLabel(f) /\ l.content = Get(b.args, f)

KnownLabels == {"Question", "Thought", "Action", "Observation", "Final Answer", "Info", "custom"}

\* the lines dispatch_react_elements owes a message under the classification
\* policy: one per reasoning block, per external call, per non-empty text and
\* per non-empty shown field of a ResponseFormat call, none for anything else
Owed(m) ==
    IF m.role = "tool" THEN (IF StartsWith(m.content, ReturningSR) THEN 0 ELSE 1)
    ELSE IF m.role # "ai" THEN 0
    ELSE LET bs == m.content_blocks
             one(b) == IF b.type = "reasoning" \/ IsExternalCall(b) THEN 1
                       ELSE IF b.type = "text" THEN (IF b.text = <<>> THEN 0 ELSE 1)
                       ELSE IF IsResponseCall(b)
                            THEN Cardinality({f \in Range(LiftedFields) : Get(b.args, f) # <<>>})
                            ELSE 0
             F[i \in 0..Len(bs)] == IF i = 0 THEN 0 ELSE F[i-1] + one(bs[i])
         IN  F[Len(bs)]

OwedAll ==
    LET F[i \in 0..Len(messages)] == IF i = 0 THEN 0 ELSE F[i-1] + Owed(messages[i])
    IN  F[Len(messages)]

====
